---- MODULE Spec2Model ----
(***************************************************************************)
(* AlgoPulse engine (daily_question.py): the question bank allocator       *)
(* get_problem / refill_bank / call_ai / clean_ai_response and the morning *)
(* batch run that calls it, run by several overlapping engine processes    *)
(* against one Firestore database.                                         *)
(*                                                                         *)
(* Texts are sequences of tokens.  A token is a TLA+ string standing for a *)
(* lexical unit of the text: the fence (three backticks), a newline, a     *)
(* blank, a JSON punctuation mark, a quoted key, or a whole JSON object    *)
(* literal (P1, P2, Pbad).                                                 *)
(*                                                                         *)
(* Spec is the engine; FnSpec applies clean_ai_response and the decoding   *)
(* of refill_bank to every argument within the bounds.                     *)
(***************************************************************************)
EXTENDS Integers, Sequences, FiniteSets, TLC

\* ------------------------------------------------------------------ bounds
MaxBank == 3          \* records the question_bank collection may hold
RecursionLimit == 2   \* nested get_problem calls the interpreter's stack allows

\* ------------------------------------------------------------------ values
\* Python's None: a value different from every text (no text holds this token).
None == <<"<None>">>

FENCE == "<fence>"
NL == "<nl>"
SP == " "

\* JSON object literals a provider may put in its array.  P1 and P2 carry the
\* fields the mail template reads ('title', 'description', 'slug'); Pbad is an
\* object without 'title'.
Payloads == {"P1", "P2", "Pbad"}
WhiteSpace == {NL, SP}

\* ------------------------------------------------------------ text helpers
RECURSIVE IndexFrom(_, _, _)
\* least i >= from with s[i] = tok, or 0
IndexFrom(s, tok, from) ==
    IF from > Len(s) THEN 0
    ELSE IF s[from] = tok THEN from
    ELSE IndexFrom(s, tok, from + 1)

Contains(s, tok) == IndexFrom(s, tok, 1) # 0

RECURSIVE Split(_, _)
\* str.split(sep): the pieces of s between the occurrences of sep
Split(s, sep) ==
    LET i == IndexFrom(s, sep, 1) IN
    IF i = 0 THEN <<s>>
    ELSE <<SubSeq(s, 1, i - 1)>> \o Split(SubSeq(s, i + 1, Len(s)), sep)

RECURSIVE Join(_, _)
\* sep.join(parts)
Join(parts, sep) ==
    IF Len(parts) = 0 THEN <<>>
    ELSE IF Len(parts) = 1 THEN parts[1]
    ELSE parts[1] \o <<sep>> \o Join(Tail(parts), sep)

\* str.replace(tok, ""): s without its occurrences of tok
Remove(s, tok) == SelectSeq(s, LAMBDA x : x # tok)

RECURSIVE LStrip(_)
LStrip(s) ==
    IF Len(s) > 0 /\ s[1] \in WhiteSpace THEN LStrip(Tail(s)) ELSE s

RECURSIVE RStrip(_)
RStrip(s) ==
    IF Len(s) > 0 /\ s[Len(s)] \in WhiteSpace
    THEN RStrip(SubSeq(s, 1, Len(s) - 1)) ELSE s

\* a strip that takes at most one whitespace character off each end
StripOnce(s) ==
    LET a == IF Len(s) > 0 /\ s[1] \in WhiteSpace THEN Tail(s) ELSE s IN
    IF Len(a) > 0 /\ a[Len(a)] \in WhiteSpace THEN SubSeq(a, 1, Len(a) - 1) ELSE a

\* str.strip()
Strip(s) == RStrip(LStrip(s))

\* clean_ai_response that leaves the fences of a fenced text where they are
clean_ai_response_strip_only(text) ==
    IF text = None \/ text = <<>> THEN <<>> ELSE Strip(text)

\* clean_ai_response(text)
clean_ai_response(text) ==
    IF text = None \/ text = <<>> THEN <<>>
    ELSE IF Contains(text, FENCE)
    THEN LET parts == Split(text, FENCE) IN
         IF Len(parts) >= 3
         THEN LET inner == parts[2] IN
              IF Contains(inner, NL)
              THEN Strip(Join(Tail(Split(inner, NL)), NL))
              ELSE Strip(inner)
         ELSE Strip(Remove(text, FENCE))
    ELSE Strip(text)

\* ------------------------------------------------------------------- JSON
\* json.loads on the token texts of this model.  The decoded value is
\*   [type |-> "list", items |-> <<...>>]     a JSON array of object literals
\*   [type |-> "dict", key |-> k, value |-> v] an object with one entry
\*   [type |-> "dict", key |-> "", value |-> None] the empty object {}
\*   [type |-> "object", lit |-> p]           one object literal
\*   [type |-> "number"]                      a number
\*   [type |-> "error"]                       json.JSONDecodeError
JsonError == [type |-> "error"]

RECURSIVE ParseItems(_)
\* the elements of "p , p , ... , p" (object literals), or None when malformed
ParseItems(s) ==
    IF Len(s) = 0 THEN None
    ELSE IF s[1] \notin Payloads THEN None
    ELSE IF Len(s) = 1 THEN <<s[1]>>
    ELSE IF s[2] # "," THEN None
    ELSE LET rest == ParseItems(SubSeq(s, 3, Len(s))) IN
         IF rest = None THEN None ELSE <<s[1]>> \o rest

\* a JSON array text "[ ... ]"
ParseArray(s) ==
    IF Len(s) < 2 \/ s[1] # "[" \/ s[Len(s)] # "]" THEN JsonError
    ELSE IF Len(s) = 2 THEN [type |-> "list", items |-> <<>>]
    ELSE LET it == ParseItems(SubSeq(s, 2, Len(s) - 1)) IN
         IF it = None THEN JsonError ELSE [type |-> "list", items |-> it]

Keys == {"problems", "other"}

json_loads(text) ==
    LET s == SelectSeq(text, LAMBDA x : x \notin WhiteSpace) IN
    IF Len(s) = 0 THEN JsonError
    ELSE IF s[1] = "[" THEN ParseArray(s)
    ELSE IF s[1] = "{" THEN
         IF s[Len(s)] # "}" THEN JsonError
         ELSE IF Len(s) = 2 THEN [type |-> "dict", key |-> "", value |-> None]
         ELSE IF Len(s) < 5 \/ s[2] \notin Keys \/ s[3] # ":" THEN JsonError
         ELSE LET v == ParseArray(SubSeq(s, 4, Len(s) - 1)) IN
              IF v.type = "error" THEN JsonError
              ELSE [type |-> "dict", key |-> s[2], value |-> v]
    ELSE IF Len(s) = 1 /\ s[1] \in Payloads THEN [type |-> "object", lit |-> s[1]]
    ELSE IF Len(s) = 1 /\ s[1] = "5" THEN [type |-> "number"]
    ELSE JsonError

\* json.dumps(p) of a decoded object literal: its text
json_dumps(p) == <<p>>

\* ------------------------------------------------------------- the provider
\* What requests.post can give back to call_ai: it raises (status 0), answers
\* with a status other than 200, or answers 200 with a body; a body without
\* 'candidates' has text None.
RawTexts ==
    { <<>>,
      <<"[", "]">>,
      <<"[", "P1", "]">>,
      <<"[", "P1", ",", "P2", "]">>,
      <<"[", "Pbad", "]">>,
      <<FENCE, "json", NL, "[", "P1", "]", NL, FENCE>>,
      <<"{", "problems", ":", "[", "P1", "]", "}">>,
      <<"{", "other", ":", "[", "P1", "]", "}">>,
      <<"oops">>,
      <<"5">> }

Responses ==
    { [status |-> 0, text |-> None], [status |-> 429, text |-> None],
      [status |-> 500, text |-> None], [status |-> 200, text |-> None] }
    \cup { [status |-> 200, text |-> t] : t \in RawTexts }

\* a field, or an environment variable, that is not there
Absent == "<absent>"

\* Line 52 puts the key in the URL as it is, so that without one the request
\* carries key=None; the API answers such a request with an error status (or
\* the post raises), never with 200.
ResponsesTo(key) ==
    IF key = Absent THEN { res \in Responses : res.status # 200 } ELSE Responses

\* call_ai with a second provider answering when the first one fails
call_ai_fallback(res) ==
    IF res.status = 200 /\ res.text # None
    THEN clean_ai_response(res.text)
    ELSE <<"[", "P1", "]">>

\* call_ai(prompt, is_json), given what requests.post gives back
call_ai(res) ==
    IF res.status = 200 /\ res.text # None
    THEN clean_ai_response(res.text)
    ELSE None

\* Python truthiness of a text or None
Truthy(x) == x # None /\ x # <<>>

\* refill_bank taking a text it cannot decode for an empty list of problems
ProblemsOfLenient(raw) ==
    LET data == json_loads(raw) IN
    IF data.type = "list" THEN data.items
    ELSE IF data.type = "dict"
         THEN IF data.key = "problems" THEN data.value.items ELSE <<>>
    ELSE <<>>

\* refill_bank reading a list only, a dict giving no problems
ProblemsOfListOnly(raw) ==
    LET data == json_loads(raw) IN
    IF data.type = "list" THEN data.items
    ELSE IF data.type = "dict" \/ data.type = "object" THEN <<>>
    ELSE None

\* refill_bank lines 80-81: the problems to insert, or None when json.loads,
\* data.get or the iteration raises (the except branch)
ProblemsOf(raw) ==
    LET data == json_loads(raw) IN
    IF data.type = "list" THEN data.items
    ELSE IF data.type = "dict"
         THEN IF data.key = "problems" THEN data.value.items ELSE <<>>
    ELSE IF data.type = "object" THEN <<>>
    ELSE None

\* ------------------------------------------------------------------ state
Runs == {"r1", "r2"}
SubIds == {1, 2, 3}

VARIABLES
    bank,         \* question_bank: document id (index) -> record
    clock,        \* datetime.now(timezone.utc): a logical time, which moves on
                  \* with every claim write, so that no two carry the same time
    subscribers,  \* subscribers collection: id -> document
    pc,           \* where each engine process is
    exc,          \* the exception that ended a process, or ""
    sub_list,     \* main: the active subscribers read at start
    todo,         \* main: the configs the dict comprehension has still to visit
    packs,        \* main: key string -> problem_data or None
    idx,          \* main: position of the subscriber loop in sub_list
    sent,         \* main: what the last dispatch_email call returned ("yes",
                  \* "no"), "none" before the first
    cur,          \* get_problem: its (topic, difficulty)
    depth,        \* get_problem: nested calls below the outer one
    callStart,    \* time at which the outer get_problem call began
    doc,          \* get_problem: id of the document the query gave, 0 if none
    status,       \* call_ai: res.status_code, 0 when requests.post raised
    raw,          \* refill_bank: what call_ai returned (kept until the next call)
    problems,     \* refill_bank: the problems still to add
    posts,        \* requests.post calls made within the outer get_problem call
    claimed,      \* ids of the documents get_problem returned to the process
    raw_text,     \* call_ai: the text of the last 200 answer, None without one
                  \* (kept until the next call from main)
    calls,        \* main: config -> number of get_problem calls made for it
    GEMINI_API_KEY, \* line 16: os.getenv("GEMINI_API_KEY"), Absent when unset
    arg,          \* a function applied on its own: its argument
    step,         \* how far the applications have got ("idle" in the engine)
    out           \* the results of the applications, in order

vars == <<bank, clock, subscribers, pc, exc, sub_list, todo, packs, idx, sent, cur,
          depth, callStart, doc, status, raw, problems, posts, claimed,
          raw_text, calls, GEMINI_API_KEY, arg, step, out>>

mainVars == <<sub_list, todo, packs, idx, sent>>
\* what no step of the engine writes
fixedVars == <<GEMINI_API_KEY, arg, step, out>>
callVars == <<cur, depth, callStart, doc, status, raw, raw_text, problems, posts>>

\* u.get('topic', 'LogicBuilding'), u.get('difficulty', 'Medium')
TopicOf(u) == IF u.topic = Absent THEN "LogicBuilding" ELSE u.topic
DifficultyOf(u) == IF u.difficulty = Absent THEN "Medium" ELSE u.difficulty

\* f"{t}_{d}"
KeyStr(t, d) == <<t, "_", d>>

NoKey == <<"", "">>
EmptyPacks == [k \in {} |-> None]

BankRecord(topic, difficulty, p, now) ==
    [topic |-> topic, difficulty |-> difficulty, problem_data |-> json_dumps(p),
     used |-> FALSE, createdAt |-> now, usedAt |-> Absent]

\* a record consumed before the model starts
UsedRecord(topic, difficulty, p) ==
    [topic |-> topic, difficulty |-> difficulty, problem_data |-> json_dumps(p),
     used |-> TRUE, createdAt |-> 0, usedAt |-> 0]

InitialBanks ==
    { u \o a \o l :
        u \in {<<>>, <<UsedRecord("Arrays", "Medium", "P2")>>},
        a \in {<<>>, <<BankRecord("Arrays", "Medium", "P1", 0)>>},
        l \in {<<>>, <<BankRecord("LogicBuilding", "Medium", "P1", 0)>>} }

Subscriber(topic, difficulty, state) ==
    [topic |-> topic, difficulty |-> difficulty, status |-> state,
     streak |-> 0, lastProblemData |-> Absent, lastSentAt |-> Absent]

\* The deployments the model starts from: the engine processes that are
\* launched (the others stay "off") and the subscribers collection they read.
\*  - two overlapping runs, one active subscriber;
\*  - one run, three active subscribers on two keys, two of them sharing a key
\*    (one by the defaults of u.get).
Deployments ==
    { [pc |-> [r \in Runs |-> "start"],
       subscribers |-> (1 :> Subscriber("Arrays", "Medium", "active"))
                    @@ (2 :> Subscriber(Absent, Absent, "paused"))
                    @@ (3 :> Subscriber("LogicBuilding", "Medium", "paused"))],
      [pc |-> [r \in Runs |-> IF r = "r1" THEN "start" ELSE "off"],
       subscribers |-> (1 :> Subscriber("Arrays", "Medium", "active"))
                    @@ (2 :> Subscriber(Absent, Absent, "active"))
                    @@ (3 :> Subscriber("LogicBuilding", "Medium", "active"))] }

Init ==
    /\ bank \in InitialBanks
    /\ clock = 1
    /\ \E d \in Deployments : subscribers = d.subscribers /\ pc = d.pc
    /\ exc = [r \in Runs |-> ""]
    /\ sub_list = [r \in Runs |-> <<>>]
    /\ todo = [r \in Runs |-> {}]
    /\ packs = [r \in Runs |-> EmptyPacks]
    /\ idx = [r \in Runs |-> 0]
    /\ sent = [r \in Runs |-> "none"]
    /\ cur = [r \in Runs |-> NoKey]
    /\ depth = [r \in Runs |-> 0]
    /\ callStart = [r \in Runs |-> 0]
    /\ doc = [r \in Runs |-> 0]
    /\ status = [r \in Runs |-> 0]
    /\ raw = [r \in Runs |-> None]
    /\ problems = [r \in Runs |-> <<>>]
    /\ posts = [r \in Runs |-> 0]
    /\ claimed = [r \in Runs |-> {}]
    /\ raw_text = [r \in Runs |-> None]
    /\ calls = [r \in Runs |-> EmptyPacks]
    /\ GEMINI_API_KEY \in {"key", Absent}
    /\ arg = None
    /\ step = "idle"
    /\ out = <<>>

\* ------------------------------------------------------------ main, start
\* lines 140-147: read the active subscribers, build the set of configs
ActiveSubs ==
    LET RECURSIVE Collect(_)
        Collect(i) ==
            IF i > Cardinality(SubIds) THEN <<>>
            ELSE (IF subscribers[i].status = "active"
                  THEN <<[id |-> i, topic |-> subscribers[i].topic,
                          difficulty |-> subscribers[i].difficulty,
                          streak |-> subscribers[i].streak]>>
                  ELSE <<>>) \o Collect(i + 1)
    IN Collect(1)

ConfigsOf(list) ==
    { <<TopicOf(list[i]), DifficultyOf(list[i])>> : i \in DOMAIN list }

Start(r) ==
    /\ pc[r] = "start"
    /\ sub_list' = [sub_list EXCEPT ![r] = ActiveSubs]
    /\ todo' = [todo EXCEPT ![r] = ConfigsOf(ActiveSubs)]
    /\ pc' = [pc EXCEPT ![r] = "packs"]
    /\ UNCHANGED <<bank, clock, subscribers, exc, packs, idx, sent, callVars,
                   claimed, calls, fixedVars>>

\* get_problem called for every subscriber instead of every distinct config
CallGetProblemPerSubscriber(r) ==
    /\ pc[r] = "packs"
    /\ todo[r] # {}
    /\ \E k \in todo[r] :
         LET n == Cardinality({ i \in DOMAIN sub_list[r] :
                     <<TopicOf(sub_list[r][i]), DifficultyOf(sub_list[r][i])>> = k })
             c == IF k \in DOMAIN calls[r] THEN calls[r][k] ELSE 0
         IN /\ cur' = [cur EXCEPT ![r] = k]
            /\ todo' = [todo EXCEPT ![r] = IF c + 1 >= n THEN @ \ {k} ELSE @]
            /\ calls' = [calls EXCEPT ![r] = (k :> c + 1) @@ @]
    /\ depth' = [depth EXCEPT ![r] = 0]
    /\ posts' = [posts EXCEPT ![r] = 0]
    /\ callStart' = [callStart EXCEPT ![r] = clock]
    /\ doc' = [doc EXCEPT ![r] = 0]
    /\ status' = [status EXCEPT ![r] = 0]
    /\ raw' = [raw EXCEPT ![r] = None]
    /\ raw_text' = [raw_text EXCEPT ![r] = None]
    /\ problems' = [problems EXCEPT ![r] = <<>>]
    /\ pc' = [pc EXCEPT ![r] = "query"]
    /\ UNCHANGED <<bank, clock, subscribers, exc, sub_list, packs, idx, sent,
                   claimed, fixedVars>>

\* line 148: the dict comprehension calls get_problem for the next config, or
\* is done and the subscriber loop begins
CallGetProblem(r) ==
    /\ pc[r] = "packs"
    /\ todo[r] # {}
    /\ \E k \in todo[r] :
         /\ cur' = [cur EXCEPT ![r] = k]
         /\ todo' = [todo EXCEPT ![r] = @ \ {k}]
         /\ calls' = [calls EXCEPT ![r] =
                         (k :> (IF k \in DOMAIN @ THEN @[k] + 1 ELSE 1)) @@ @]
    /\ depth' = [depth EXCEPT ![r] = 0]
    /\ posts' = [posts EXCEPT ![r] = 0]
    /\ callStart' = [callStart EXCEPT ![r] = clock]
    /\ doc' = [doc EXCEPT ![r] = 0]
    /\ status' = [status EXCEPT ![r] = 0]
    /\ raw' = [raw EXCEPT ![r] = None]
    /\ raw_text' = [raw_text EXCEPT ![r] = None]
    /\ problems' = [problems EXCEPT ![r] = <<>>]
    /\ pc' = [pc EXCEPT ![r] = "query"]
    /\ UNCHANGED <<bank, clock, subscribers, exc, sub_list, packs, idx, sent,
                   claimed, fixedVars>>

BeginLoop(r) ==
    /\ pc[r] = "packs"
    /\ todo[r] = {}
    /\ idx' = [idx EXCEPT ![r] = 1]
    /\ pc' = [pc EXCEPT ![r] = "loop"]
    /\ UNCHANGED <<bank, clock, subscribers, exc, sub_list, todo, packs, sent,
                   callVars, claimed, calls, fixedVars>>

\* ------------------------------------------------------------ get_problem
\* the query without its filter on the topic
UnusedAnyTopic(topic, difficulty) ==
    { i \in DOMAIN bank : /\ bank[i].difficulty = difficulty
                          /\ bank[i].used = FALSE }

\* lines 96-99: the documents the query matches
Unused(topic, difficulty) ==
    { i \in DOMAIN bank : /\ bank[i].topic = topic
                          /\ bank[i].difficulty = difficulty
                          /\ bank[i].used = FALSE }

\* get_problem returns value v to the dict comprehension (lines 103, 108, 148)
\* and the frames of the call, with their locals, are gone
Return(r, v) ==
    /\ packs' = [packs EXCEPT ![r] = (KeyStr(cur[r][1], cur[r][2]) :> v) @@ @]
    /\ pc' = [pc EXCEPT ![r] = "packs"]
    /\ cur' = [cur EXCEPT ![r] = NoKey]
    /\ depth' = [depth EXCEPT ![r] = 0]
    /\ callStart' = [callStart EXCEPT ![r] = 0]
    /\ doc' = [doc EXCEPT ![r] = 0]
    /\ problems' = [problems EXCEPT ![r] = <<>>]
    /\ posts' = [posts EXCEPT ![r] = 0]
    /\ UNCHANGED <<status, raw, raw_text>>

\* get_problem going on to refill_bank also when the query gave a document
QueryThenRefill(r) ==
    /\ pc[r] = "query"
    /\ LET found == { i \in DOMAIN bank : /\ bank[i].topic = cur[r][1]
                                         /\ bank[i].difficulty = cur[r][2]
                                         /\ bank[i].used = FALSE } IN
       IF found # {}
       THEN \E i \in found : doc' = [doc EXCEPT ![r] = i]
       ELSE doc' = [doc EXCEPT ![r] = 0]
    /\ pc' = [pc EXCEPT ![r] = "refill"]
    /\ UNCHANGED <<bank, clock, subscribers, exc, mainVars, cur, depth, callStart,
                   status, raw, raw_text, problems, posts, claimed, calls,
                   fixedVars>>

\* lines 96-101: run the query; with a document go on to the update, without
\* one go on to refill_bank
Query(r) ==
    /\ pc[r] = "query"
    /\ LET found == Unused(cur[r][1], cur[r][2]) IN
       IF found # {}
       THEN /\ \E i \in found : doc' = [doc EXCEPT ![r] = i]
            /\ pc' = [pc EXCEPT ![r] = "update"]
       ELSE /\ doc' = [doc EXCEPT ![r] = 0]
            /\ pc' = [pc EXCEPT ![r] = "refill"]
    /\ UNCHANGED <<bank, clock, subscribers, exc, mainVars, cur, depth, callStart,
                   status, raw, raw_text, problems, posts, claimed, calls,
                   fixedVars>>

\* lines 102-103: flag the document the query gave and return its problem_data
Update(r) ==
    /\ pc[r] = "update"
    /\ bank' = [bank EXCEPT ![doc[r]].used = TRUE, ![doc[r]].usedAt = clock]
    /\ clock' = clock + 1
    /\ claimed' = [claimed EXCEPT ![r] = @ \cup {doc[r]}]
    /\ Return(r, bank[doc[r]].problem_data)
    /\ UNCHANGED <<subscribers, exc, sub_list, todo, idx, sent, calls, fixedVars>>

\* call_ai posting the prompt a second time when the answer is a rate limit
RefillRetrying(r) ==
    /\ pc[r] = "refill"
    /\ \E res \in ResponsesTo(GEMINI_API_KEY) :
         /\ status' = [status EXCEPT ![r] = res.status]
         /\ raw_text' = [raw_text EXCEPT ![r] =
                            IF res.status = 200 THEN res.text ELSE None]
         /\ raw' = [raw EXCEPT ![r] = call_ai(res)]
         /\ posts' = [posts EXCEPT ![r] = @ + (IF res.status = 429 THEN 2 ELSE 1)]
    /\ pc' = [pc EXCEPT ![r] = "decode"]
    /\ UNCHANGED <<bank, clock, subscribers, exc, mainVars, cur, depth, callStart,
                   doc, problems, claimed, calls, fixedVars>>

\* lines 105, 72-77: refill_bank calls call_ai, which posts the prompt
Refill(r) ==
    /\ pc[r] = "refill"
    /\ \E res \in ResponsesTo(GEMINI_API_KEY) :
         /\ status' = [status EXCEPT ![r] = res.status]
         /\ raw_text' = [raw_text EXCEPT ![r] =
                            IF res.status = 200 THEN res.text ELSE None]
         /\ raw' = [raw EXCEPT ![r] = call_ai(res)]
    /\ posts' = [posts EXCEPT ![r] = @ + 1]
    /\ pc' = [pc EXCEPT ![r] = "decode"]
    /\ UNCHANGED <<bank, clock, subscribers, exc, mainVars, cur, depth, callStart,
                   doc, problems, claimed, calls, fixedVars>>

\* refill_bank returns False (lines 78, 90-92)
RefillFails(text) == ~Truthy(text) \/ ProblemsOf(text) = None

\* lines 78-82, 105, 108: without a text, or when decoding raises, refill_bank
\* returns False and get_problem returns None; else the problems are added
Decode(r) ==
    /\ pc[r] = "decode"
    /\ IF RefillFails(raw[r])
       THEN Return(r, None)
       ELSE /\ Len(bank) + Len(ProblemsOf(raw[r])) <= MaxBank
            /\ problems' = [problems EXCEPT ![r] = ProblemsOf(raw[r])]
            /\ pc' = [pc EXCEPT ![r] = "add"]
            /\ UNCHANGED <<packs, cur, depth, callStart, doc, status, raw,
                           raw_text, posts>>
    /\ UNCHANGED <<bank, clock, subscribers, exc, sub_list, todo, idx, sent,
                   claimed, calls, fixedVars>>

\* lines 83-87: bank_ref.add of the next problem
Add(r) ==
    /\ pc[r] = "add"
    /\ problems[r] # <<>>
    /\ bank' = Append(bank, BankRecord(cur[r][1], cur[r][2], Head(problems[r]), clock))
    /\ problems' = [problems EXCEPT ![r] = Tail(@)]
    /\ UNCHANGED <<clock, subscribers, pc, exc, mainVars, cur, depth, callStart, doc,
                   status, raw, raw_text, posts, claimed, calls, fixedVars>>

\* lines 88-89, 105-107: refill_bank returns True and get_problem calls itself.
\* The call nests one level deeper; beyond the interpreter's limit it raises
\* RecursionError, which no frame of get_problem handles.
Reenter(r) ==
    /\ pc[r] = "add"
    /\ problems[r] = <<>>
    /\ IF depth[r] < RecursionLimit
       THEN /\ depth' = [depth EXCEPT ![r] = @ + 1]
            /\ pc' = [pc EXCEPT ![r] = "query"]
            /\ status' = [status EXCEPT ![r] = 0]
            /\ raw' = [raw EXCEPT ![r] = None]
            /\ exc' = exc
       ELSE /\ pc' = [pc EXCEPT ![r] = "aborted"]
            /\ exc' = [exc EXCEPT ![r] = "RecursionError"]
            /\ UNCHANGED <<depth, status, raw>>
    /\ UNCHANGED <<bank, clock, subscribers, mainVars, cur, callStart, doc,
                   raw_text, problems, posts, claimed, calls, fixedVars>>

\* ------------------------------------------------------- main, morning loop
\* the fields of an object literal the mail body reads with p['...']
HasTitle(p) == p.type = "object" /\ p.lit \in {"P1", "P2"}

\* lines 150-210: one iteration of the subscriber loop
Iterate(r) ==
    /\ pc[r] = "loop"
    /\ idx[r] <= Len(sub_list[r])
    /\ LET u == sub_list[r][idx[r]]
           key == KeyStr(TopicOf(u), DifficultyOf(u))
           problem_data == IF key \in DOMAIN packs[r] THEN packs[r][key] ELSE None
       IN IF Truthy(problem_data)
          THEN IF HasTitle(json_loads(problem_data))
               THEN /\ \E ok \in BOOLEAN :
                         IF ok
                         THEN /\ sent' = [sent EXCEPT ![r] = "yes"]
                              /\ subscribers' = [subscribers EXCEPT
                                     ![u.id].streak = u.streak + 1,
                                     ![u.id].lastProblemData = problem_data,
                                     ![u.id].lastSentAt = clock]
                         ELSE /\ sent' = [sent EXCEPT ![r] = "no"]
                              /\ UNCHANGED subscribers
                    /\ idx' = [idx EXCEPT ![r] = @ + 1]
                    /\ UNCHANGED <<clock, pc, exc>>
               ELSE /\ pc' = [pc EXCEPT ![r] = "aborted"]
                    /\ exc' = [exc EXCEPT ![r] = "KeyError"]
                    /\ UNCHANGED <<subscribers, clock, idx, sent>>
          ELSE /\ idx' = [idx EXCEPT ![r] = @ + 1]
               /\ UNCHANGED <<subscribers, clock, pc, exc, sent>>
    /\ UNCHANGED <<bank, sub_list, todo, packs, callVars, claimed, calls,
                   fixedVars>>

\* line 269: the loop is over
Finish(r) ==
    /\ pc[r] = "loop"
    /\ idx[r] > Len(sub_list[r])
    /\ pc' = [pc EXCEPT ![r] = "finished"]
    /\ UNCHANGED <<bank, clock, subscribers, exc, mainVars, callVars, claimed,
                   calls, fixedVars>>

Next ==
    \E r \in Runs :
        \/ Start(r)
        \/ CallGetProblem(r)
        \/ BeginLoop(r)
        \/ Query(r)
        \/ Update(r)
        \/ Refill(r)
        \/ Decode(r)
        \/ Add(r)
        \/ Reenter(r)
        \/ Iterate(r)
        \/ Finish(r)

Spec == Init /\ [][Next]_vars

\* --------------------------------------------- the functions on their own
\* clean_ai_response and the decoding of refill_bank, applied to every text
\* and every sequence of problems within the bounds, the engine at rest.
MaxText == 5   \* tokens of a text given to clean_ai_response
MaxSeq == 3    \* problems in a list given to refill_bank's decoding

TextTokens == {FENCE, NL, SP, "json", "P1"}
Texts == UNION { [1..n -> TextTokens] : n \in 0..MaxText } \cup {None}
PayloadSeqs == UNION { [1..n -> Payloads] : n \in 0..MaxSeq }

\* the JSON text of a list of problems, and of a dict holding it under
\* 'problems': the two shapes line 81 tells apart
RECURSIVE ItemsText(_)
ItemsText(s) ==
    IF s = <<>> THEN <<>>
    ELSE IF Len(s) = 1 THEN <<s[1]>>
    ELSE <<s[1], ",">> \o ItemsText(Tail(s))

ArrayText(s) == <<"[">> \o ItemsText(s) \o <<"]">>
KeyedText(s) == <<"{", "problems", ":">> \o ArrayText(s) \o <<"}">>

\* lines 77-81: the problems refill_bank gets out of an answered text, None
\* when it returns False
refill_problems(text) ==
    LET answer == call_ai([status |-> 200, text |-> text]) IN
    IF RefillFails(answer) THEN None ELSE ProblemsOf(answer)

\* lines 83-87: the records the loop adds for a list of problems
RecordsOf(ps) ==
    [i \in DOMAIN ps |-> BankRecord("Arrays", "Medium", ps[i], 1)]

engineVars == <<bank, clock, subscribers, pc, exc, mainVars, callVars, claimed,
                calls, GEMINI_API_KEY>>

FnInit ==
    /\ bank = <<>>
    /\ clock = 1
    /\ subscribers = [i \in SubIds |-> Subscriber(Absent, Absent, "paused")]
    /\ pc = [r \in Runs |-> "off"]
    /\ exc = [r \in Runs |-> ""]
    /\ sub_list = [r \in Runs |-> <<>>]
    /\ todo = [r \in Runs |-> {}]
    /\ packs = [r \in Runs |-> EmptyPacks]
    /\ idx = [r \in Runs |-> 0]
    /\ sent = [r \in Runs |-> "none"]
    /\ cur = [r \in Runs |-> NoKey]
    /\ depth = [r \in Runs |-> 0]
    /\ callStart = [r \in Runs |-> 0]
    /\ doc = [r \in Runs |-> 0]
    /\ status = [r \in Runs |-> 0]
    /\ raw = [r \in Runs |-> None]
    /\ problems = [r \in Runs |-> <<>>]
    /\ posts = [r \in Runs |-> 0]
    /\ claimed = [r \in Runs |-> {}]
    /\ raw_text = [r \in Runs |-> None]
    /\ calls = [r \in Runs |-> EmptyPacks]
    /\ GEMINI_API_KEY = "key"
    /\ arg \in { [kind |-> "text", val |-> t] : t \in Texts }
                \cup { [kind |-> "problems", val |-> s] : s \in PayloadSeqs }
    /\ step = "in"
    /\ out = <<>>

\* clean_ai_response(text)
Normalize ==
    /\ step = "in"
    /\ arg.kind = "text"
    /\ out' = <<clean_ai_response(arg.val)>>
    /\ step' = "once"
    /\ UNCHANGED <<arg, engineVars>>

\* clean_ai_response applied to its own result
NormalizeAgain ==
    /\ step = "once"
    /\ out' = Append(out, clean_ai_response(out[1]))
    /\ step' = "twice"
    /\ UNCHANGED <<arg, engineVars>>

\* lines 77-81 on the list shape and on the dict shape of the same problems
ParseShapes ==
    /\ step = "in"
    /\ arg.kind = "problems"
    /\ out' = <<refill_problems(ArrayText(arg.val)),
                refill_problems(KeyedText(arg.val))>>
    /\ step' = "parsed"
    /\ UNCHANGED <<arg, engineVars>>

\* lines 83-87 for each of the two
InsertShapes ==
    /\ step = "parsed"
    /\ out[1] # None
    /\ out[2] # None
    /\ out' = out \o <<RecordsOf(out[1]), RecordsOf(out[2])>>
    /\ step' = "inserted"
    /\ UNCHANGED <<arg, engineVars>>

FnNext == Normalize \/ NormalizeAgain \/ ParseShapes \/ InsertShapes

FnSpec == FnInit /\ [][FnNext]_vars

\* ================================================================== claims
KeyOf(rec) == <<rec.topic, rec.difficulty>>

\* the process that takes the step
Acting(r) ==
    pc'[r] # pc[r] \/ problems'[r] # problems[r] \/ idx'[r] # idx[r]

\* the process is inside a get_problem call
InCall(r) == cur[r] # NoKey

\* no refill has inserted a record: the bank holds the initial records only
NothingInserted == \A i \in DOMAIN bank : bank[i].createdAt = 0

\* the records of key k that were unconsumed when the processes started
InitiallyUnused(k) ==
    { i \in DOMAIN bank : /\ KeyOf(bank[i]) = k
                          /\ bank[i].createdAt = 0
                          /\ (bank[i].used => bank[i].usedAt >= 1) }

Launched == { r \in Runs : pc[r] # "off" }

AllKeys == { <<"Arrays", "Medium">>, <<"LogicBuilding", "Medium">> }

\* C1: get_problem calls that overlap on one key never return the same
\* question_bank document to two callers.
C1_NoDoubleClaim ==
    \A r1, r2 \in Runs : r1 # r2 => claimed[r1] \cap claimed[r2] = {}

\* C2: when all N launched processes have completed get_problem for a key
\* whose sub-pool held M < N unconsumed records (and no refill added any),
\* exactly M of the calls returned a payload and N - M returned None.
C2_ExactlyMClaims ==
    \A k \in AllKeys :
        LET ks == KeyStr(k[1], k[2])
            M == Cardinality(InitiallyUnused(k))
            N == Cardinality(Launched)
        IN (/\ NothingInserted
            /\ M < N
            /\ \A r \in Launched : ks \in DOMAIN packs[r])
           => /\ Cardinality({ r \in Launched : packs[r][ks] # None }) = M
              /\ Cardinality({ r \in Launched : packs[r][ks] = None }) = N - M

\* C3: when every refill inserts zero records, a get_problem call on an empty
\* sub-pool ends by returning None; it does not go on calling itself until the
\* interpreter's stack is exhausted.
C3_BoundedRefill ==
    NothingInserted =>
        \A r \in Runs : ~(InCall(r) /\ pc[r] = "aborted" /\ exc[r] = "RecursionError")

\* C4: one get_problem call makes at most one generation call: after a refill
\* that reported success the claim step is re-entered once, and a second miss
\* ends the call instead of refilling again.
C4_AtMostOneRefill ==
    \A r \in Runs : posts[r] <= 1

\* C5: a record's used flag goes from false to true once: a consumed record
\* is never written again (used stays true, usedAt keeps its value), and topic,
\* difficulty, problem_data and createdAt never change after creation.
C5_ConsumedOnce ==
    [][\A i \in DOMAIN bank :
          /\ i \in DOMAIN bank'
          /\ bank'[i].topic = bank[i].topic
          /\ bank'[i].difficulty = bank[i].difficulty
          /\ bank'[i].problem_data = bank[i].problem_data
          /\ bank'[i].createdAt = bank[i].createdAt
          /\ (bank[i].used => bank'[i] = bank[i])]_vars

\* the generation step failed, or its text cannot be decoded
GenerationFailed(text) == text = None \/ json_loads(text).type = "error"

\* C6: when refill_bank gets no text from call_ai (status other than 200,
\* exception, response without candidates) or a text json.loads rejects, the
\* get_problem call returns None without raising, and the step changes no
\* record of the bank.
C6_FailedRefillReturnsNone ==
    [][\A r \in Runs :
          /\ (pc[r] = "refill" /\ Acting(r)) => (bank' = bank /\ exc'[r] = "")
          /\ (pc[r] = "decode" /\ Acting(r) /\ GenerationFailed(raw[r]))
          => /\ bank' = bank
             /\ pc'[r] = "packs"
             /\ exc'[r] = ""
             /\ KeyStr(cur[r][1], cur[r][2]) \in DOMAIN packs'[r]
             /\ packs'[r][KeyStr(cur[r][1], cur[r][2])] = None]_vars

\* C6 witness: a call that met an undecodable text has returned None
C6_Witness ==
    \E r \in Runs :
        /\ pc[r] = "packs"
        /\ raw[r] = <<"oops">>
        /\ \E ks \in DOMAIN packs[r] : packs[r][ks] = None

\* C7: a get_problem call that cannot obtain an item never aborts the run: no
\* process ends inside get_problem, and a finished run has called get_problem
\* for every config and visited every subscriber.
C7_FailedAcquireNeverAborts ==
    \A r \in Runs :
        /\ pc[r] = "aborted" => ~InCall(r)
        /\ pc[r] = "finished" =>
              /\ \A k \in ConfigsOf(sub_list[r]) : KeyStr(k[1], k[2]) \in DOMAIN packs[r]
              /\ idx[r] = Len(sub_list[r]) + 1

\* a record that was consumed before the process's get_problem call began
ConsumedBefore(i, r) == bank[i].used /\ bank[i].usedAt < callStart[r]

C9_InsertOnlyOnEmptyPool ==
    [][/\ Len(bank') >= Len(bank)
       /\ Len(bank') > Len(bank) =>
             \E r \in Runs :
                 /\ Acting(r)
                 /\ pc[r] = "add"
                 /\ doc[r] = 0
                 /\ status[r] = 200
                 /\ ~GenerationFailed(raw[r])
       /\ \A r \in Runs :
             (pc[r] = "update" /\ Acting(r))
             => /\ doc[r] # 0
                /\ posts[r] = depth[r]
                /\ Len(bank') = Len(bank)]_vars

\* C9 witness: a refill has inserted a record, and a call that found a
\* document on its first query is about to return it
C9_Witness ==
    /\ \E i \in DOMAIN bank : bank[i].createdAt > 0
    /\ \E r \in Runs : pc[r] = "update" /\ depth[r] = 0 /\ posts[r] = 0

\* a failure of the provider that is not a rate limit
OtherFailure(code) == code # 200 /\ code # 429

C12_NoRequestWithoutKey ==
    GEMINI_API_KEY = Absent =>
        \A r \in Runs : /\ posts[r] = 0
                        /\ pc[r] = "decode" => raw[r] = None

\* the answer of the C13 scenario: a fenced JSON array holding one record
FencedOne == <<FENCE, "json", NL, "[", "P1", "]", NL, FENCE>>

\* the records refill_bank has inserted for key k
InsertedFor(k) ==
    { i \in DOMAIN bank : KeyOf(bank[i]) = k /\ bank[i].createdAt > 0 }

\* run r has completed its first get_problem call, made for key k, and the
\* provider's last answer in that call was the fenced one-record array
FirstAcquireDone(r, k) ==
    /\ raw_text[r] = FencedOne
    /\ ~InCall(r)
    /\ DOMAIN packs[r] = {KeyStr(k[1], k[2])}

\* run o is inside a get_problem call for key k that began after every claim
\* of run r was written
SecondAcquire(r, o, k) ==
    /\ FirstAcquireDone(r, k)
    /\ claimed[r] # {}
    /\ InCall(o)
    /\ cur[o] = k
    /\ \A i \in claimed[r] : ConsumedBefore(i, o)

\* C13, as stated: after the first acquire has inserted and consumed the one
\* record, a second acquire on the same key returns None (PoolUnavailable):
\* it never comes to return a payload.
C13_SecondAcquireUnavailable ==
    \A r \in Runs : \A o \in Runs \ {r} : \A k \in AllKeys :
        SecondAcquire(r, o, k) => pc[o] # "update"

\* C13, amended: with the sub-pool of the key empty and the provider answering
\* a fenced array of one record, the first acquire inserts exactly one record
\* and returns its payload, leaving no unconsumed record for the key; a
\* second acquire on the key then finds nothing to claim at its first query
\* and asks the provider again, so that a payload it returns is that of a
\* record generated within this second call.
C13_FirstAcquireThenRegenerate ==
    \A r \in Runs : \A k \in AllKeys :
        /\ (FirstAcquireDone(r, k) /\ \A o \in Runs \ {r} : calls[o] = EmptyPacks)
           => /\ packs[r][KeyStr(k[1], k[2])] = json_dumps("P1")
              /\ Unused(k[1], k[2]) = {}
              /\ Cardinality(InsertedFor(k)) = 1
              /\ InsertedFor(k) \subseteq claimed[r]
        /\ \A o \in Runs \ {r} :
              SecondAcquire(r, o, k)
              => /\ depth[o] = 0 => (doc[o] = 0 /\ pc[o] # "update")
                 /\ pc[o] = "update" =>
                        /\ depth[o] >= 1
                        /\ posts[o] >= 1
                        /\ bank[doc[o]].createdAt >= callStart[o]

\* C13 witness: the first acquire went through the fenced answer and is done,
\* and the second acquire on the same key is past its own refill and about to
\* return what that refill generated
C13_Witness ==
    \E r \in Runs : \E o \in Runs \ {r} : \E k \in AllKeys :
        /\ SecondAcquire(r, o, k)
        /\ packs[r][KeyStr(k[1], k[2])] = json_dumps("P1")
        /\ pc[o] = "update"
        /\ depth[o] = 1

\* C14: for every sequence s of problems, the list text of s and the dict
\* text holding s under 'problems' decode to the same sequence, s itself, and
\* refill_bank adds the same records, as many as s has, for both.
C14_ShapesAgree ==
    (arg.kind = "problems" /\ step \in {"parsed", "inserted"}) =>
        /\ out[1] = arg.val
        /\ out[2] = arg.val
        /\ step = "inserted" =>
              /\ out[3] = out[4]
              /\ Len(out[3]) = Len(arg.val)
              /\ \A i \in DOMAIN arg.val :
                    out[3][i].problem_data = json_dumps(arg.val[i])

\* C14 witness: both shapes of a sequence of two different problems have been
\* decoded and their records built
C14_Witness ==
    /\ arg.kind = "problems"
    /\ step = "inserted"
    /\ Len(arg.val) = 2
    /\ arg.val[1] # arg.val[2]
    /\ Len(out[4]) = 2

\* the text decodes, but to an empty list, to a dict whose 'problems' is an
\* empty list, or to a dict without 'problems'
NoUsableSequence(text) ==
    /\ Truthy(text)
    /\ LET data == json_loads(text) IN
          \/ data.type = "list" /\ data.items = <<>>
          \/ data.type = "dict" /\ data.key = "problems" /\ data.value.items = <<>>
          \/ data.type = "dict" /\ data.key # "problems"

\* C15: a generated text that decodes to an empty sequence, or to a dict
\* lacking 'problems', makes the refill fail: refill_bank does not go on to
\* its success path, and get_problem does not call itself again.
C15_EmptyRefillFails ==
    \A r \in Runs : pc[r] = "add" => ~NoUsableSequence(raw[r])

\* a line that looks like a language tag: it has no structural character
LooksLikeTag(line) == \A i \in DOMAIN line : line[i] \notin Payloads

\* C16: for a text with at least one pair of fences, clean_ai_response gives
\* the content between the first fence and the next one (surrounding
\* whitespace aside), without its first line only when that line looks like a
\* language tag; a first line that carries structured data is kept.
C16_TagLineOnly ==
    (arg.kind = "text" /\ step \in {"once", "twice"} /\ arg.val # None
        /\ Len(Split(arg.val, FENCE)) >= 3)
    => LET inner == Split(arg.val, FENCE)[2]
           lines == Split(inner, NL)
           rest  == Join(Tail(lines), NL)
       IN /\ out[1] \in {Strip(inner), Strip(rest)}
          /\ ~LooksLikeTag(lines[1]) => out[1] = Strip(inner)

\* C17: clean_ai_response leaves a text it has already cleaned, which holds
\* no fence, as it is, and gives the empty text for an empty input.
C17_Idempotent ==
    /\ (step = "twice" /\ ~Contains(out[1], FENCE)) => out[2] = out[1]
    /\ (step = "twice" /\ arg.val # None /\ ~Contains(arg.val, FENCE)) =>
            out[2] = out[1]
    /\ (step \in {"once", "twice"} /\ arg.val \in {<<>>, None}) => out[1] = <<>>

\* C17 witness: a text without a fence that the first cleaning changed, not
\* to nothing, has been cleaned twice
C17_Witness ==
    /\ arg.kind = "text"
    /\ step = "twice"
    /\ arg.val # None
    /\ ~Contains(arg.val, FENCE)
    /\ out[1] # arg.val
    /\ out[1] # <<>>
    /\ Len(arg.val) >= Len(out[1]) + 3

\* the subscribers of the list a run read whose config is k
SharingKey(r, k) ==
    { i \in DOMAIN sub_list[r] :
        <<TopicOf(sub_list[r][i]), DifficultyOf(sub_list[r][i])>> = k }

\* C18: in one morning run get_problem is called exactly once for every
\* distinct config among the active subscribers (never twice, and for all of
\* them by the time the subscriber loop begins), the run consumes at most one
\* record per config however many subscribers share it, and the subscribers
\* that share a config are handed the same payload.
C18_OncePerKey ==
    \A r \in Runs :
        /\ \A k \in DOMAIN calls[r] : calls[r][k] = 1
        /\ DOMAIN calls[r] \subseteq ConfigsOf(sub_list[r])
        /\ pc[r] \in {"loop", "finished"} => DOMAIN calls[r] = ConfigsOf(sub_list[r])
        /\ \A k \in AllKeys :
              Cardinality({ i \in claimed[r] : KeyOf(bank[i]) = k }) <= 1
        /\ Launched = {r} =>
              \A k \in ConfigsOf(sub_list[r]) : \A i, j \in SharingKey(r, k) :
                 LET a == subscribers[sub_list[r][i].id].lastProblemData
                     b == subscribers[sub_list[r][j].id].lastProblemData
                 IN (a # Absent /\ b # Absent) =>
                        (a = b /\ a = packs[r][KeyStr(k[1], k[2])])

\* C18 witness: a run has finished in which two subscribers sharing a config
\* were both sent the payload of the one record the run consumed for it
C18_Witness ==
    \E r \in Runs : \E k \in AllKeys :
        /\ Launched = {r}
        /\ pc[r] = "finished"
        /\ Cardinality(SharingKey(r, k)) = 2
        /\ \A i \in SharingKey(r, k) :
              subscribers[sub_list[r][i].id].lastProblemData # Absent
        /\ Cardinality({ i \in claimed[r] : KeyOf(bank[i]) = k }) = 1
        /\ Cardinality(DOMAIN calls[r]) = 2

\* run r takes one iteration of its subscriber loop
LoopStep(r) == pc[r] = "loop" /\ idx[r] <= Len(sub_list[r]) /\ Acting(r)

\* packs.get(key) for the subscriber the loop of run r is at
PayloadFor(r) ==
    LET u == sub_list[r][idx[r]]
        key == KeyStr(TopicOf(u), DifficultyOf(u))
    IN IF key \in DOMAIN packs[r] THEN packs[r][key] ELSE None

\* dispatch_email was called in this step of run r and returned True
Dispatched(r) == Truthy(PayloadFor(r)) /\ pc'[r] = "loop" /\ sent'[r] = "yes"

\* what a loop iteration of run r does to the store, but for the new streak:
\* it writes to the one subscriber, and only after a successful dispatch,
\* lastProblemData is then the payload sent and lastSentAt the time, nothing
\* is written without a payload or after a failed dispatch, and the records
\* of question_bank, the consumed one included, stay as they are
FrameOfIteration(r) ==
    LET id == sub_list[r][idx[r]].id IN
    /\ \A j \in SubIds \ {id} : subscribers'[j] = subscribers[j]
    /\ subscribers'[id] # subscribers[id] => Dispatched(r)
    /\ Dispatched(r) =>
          /\ subscribers'[id].lastProblemData = PayloadFor(r)
          /\ subscribers'[id].lastSentAt = clock
    /\ bank' = bank
    /\ \A i \in claimed[r] : bank'[i].used

\* C19: a subscriber's stored state is written only after dispatch_email
\* succeeded; the stored streak then grows by exactly 1 and lastProblemData
\* is the payload sent; without a payload, or when the dispatch fails, the
\* stored state stays as it is and the claimed record stays consumed.
C19_StreakGrowsByOne ==
    [][\A r \in Runs :
          LoopStep(r) =>
              /\ FrameOfIteration(r)
              /\ Dispatched(r) =>
                    subscribers'[sub_list[r][idx[r]].id].streak
                        = subscribers[sub_list[r][idx[r]].id].streak + 1]_vars

\* What holds of the streak: after a successful dispatch it is the streak
\* the run read at its start, plus 1 (and all the rest of C19 holds).
StreakFromSnapshot ==
    [][\A r \in Runs :
          LoopStep(r) =>
              /\ FrameOfIteration(r)
              /\ Dispatched(r) =>
                    subscribers'[sub_list[r][idx[r]].id].streak
                        = sub_list[r][idx[r]].streak + 1]_vars

====
